---- MODULE Spec2Model ----
(***************************************************************************)
(* LatentDynamicsModel (src/models/latent_dynamics_model.py): a feed-      *)
(* forward predictor (latent state, action) -> (next latent state, reward, *)
(* termination probability) with an exact-match memoization store.         *)
(*                                                                         *)
(* Tensors are modelled as sequences of integers.  Every weight, bias and  *)
(* input of the model is integer-valued and small, so the float32          *)
(* arithmetic of the linear layers and of relu is exact on them; only      *)
(* torch.sigmoid leaves the integers, and its float32 result is kept as    *)
(* its IEEE-754 bit pattern.                                               *)
(***************************************************************************)
EXTENDS Integers, Sequences, FiniteSets, TLC

VARIABLES memoize_on, memos, delta_mode, params, last, watch, fresh

vars == <<memoize_on, memos, delta_mode, params, last, watch, fresh>>

(***************************************************************************)
(* Construction arguments and bounds of the exploration.                   *)
(***************************************************************************)
\* latent_state_dim and action_dim given to __init__
LatentDim == 1
ActionDim == 2
\* number of parameter settings (checkpoints) the network moves between
NumParams == 2
\* largest number of entries the store is let grow to, in a run observed
\* step by step and in a run observed call against call
MaxMemos == 2
MaxWatchMemos == 1

\* widths of the two hidden layers
Hidden1 == 256
Hidden2 == 32

Params == 0 .. (NumParams - 1)
InDim == LatentDim + ActionDim

(***************************************************************************)
(* Tensor helpers.                                                         *)
(***************************************************************************)
\* torch.cat([u, v], dim=-1) of two unbatched vectors
Cat(u, v) == u \o v

\* the outcome of a tensor operation: a tensor, or the RuntimeError torch
\* raises on incompatible shapes
Ok(v) == [ok |-> TRUE, v |-> v]
ShapeError == [ok |-> FALSE, v |-> <<>>]

\* sum of w[i] * x[i] for i in lo .. hi, summed by halves
RECURSIVE DotRange(_, _, _, _)
DotRange(w, x, lo, hi) ==
    IF lo > hi THEN 0
    ELSE IF lo = hi THEN w[lo] * x[lo]
    ELSE LET mid == (lo + hi) \div 2
         IN  DotRange(w, x, lo, mid) + DotRange(w, x, mid + 1, hi)

\* nn.Linear applied to an unbatched vector: x W^T + b, or a shape error
Linear(layer, x) ==
    IF Len(x) # layer.in_features
    THEN ShapeError
    ELSE Ok([j \in 1 .. layer.out_features |->
                DotRange(layer.weight[j], x, 1, layer.in_features) + layer.bias[j]])

\* torch.relu, element-wise
Relu(x) == [j \in 1 .. Len(x) |-> IF x[j] > 0 THEN x[j] ELSE 0]

\* u + v with torch broadcasting of 1-D tensors: equal widths, or one width 1
Add(u, v) ==
    IF Len(u) = Len(v) THEN Ok([j \in 1 .. Len(u) |-> u[j] + v[j]])
    ELSE IF Len(v) = 1 THEN Ok([j \in 1 .. Len(u) |-> u[j] + v[1]])
    ELSE IF Len(u) = 1 THEN Ok([j \in 1 .. Len(v) |-> u[1] + v[j]])
    ELSE ShapeError

\* float32 bit patterns of 1.0 and 0.0
F32One == 1065353216
F32Zero == 0

\* float32 bit patterns of 1/(1+exp(-z)) for z = SigLo .. SigHi
SigLo == -88
SigHi == 16
SigTable ==
  << 
     4320708, 11744903, 24351587, 36013792, 48298349, 60351179,
     72338211, 84751831, 96464058, 109210919, 120669328, 133230227,
     144947952, 157190223, 169294331, 181242305, 193703289, 205379441,
     218170046, 229595136, 242110749, 253883390, 266083833, 278238663,
     290148004, 302655836, 314296305, 327104652, 338522313, 350993132,
     362820093, 374979161, 387184163, 399055289, 411609462, 423214636,
     435975008, 447450844, 459877355, 471758045, 483876190, 496130818,
     507964145, 520564154, 532134415, 544847338, 556380713, 568763398,
     580697234, 592774898, 605078615, 616874553, 629519902, 641055629,
     653721616, 665311908, 677651240, 689637647, 701675271, 714027542,
     725786497, 738476693, 749978262, 762597820, 774244412, 786540863,
     798579270, 810577286, 822977587, 834699960, 847434517, 858902297,
     871475931, 883178210, 895432236, 907522067, 919480846, 931928584,
     943614360, 956392315, 967823855, 980341660, 992086971, 1004228532,
     1016289233, 1027752354, 1039409321, 1049211569, 1056964608, 1060841128,
     1063353322, 1064557542, 1065051457, 1065240929, 1065311733, 1065337932,
     1065347590, 1065351146, 1065352454, 1065352936, 1065353112, 1065353178,
     1065353202, 1065353210, 1065353214
  >>

\* a sigmoid that thresholds: 1.0 for a positive score, 0.0 otherwise
SigmoidThreshold(z) == IF z > 0 THEN F32One ELSE F32Zero

\* torch.sigmoid on a float32 holding the integer z: exp(-z) overflows to inf
\* below SigLo (result 0.0) and 1 + exp(-z) rounds to 1 above SigHi (result 1.0)
Sigmoid(z) ==
    IF z > SigHi THEN F32One
    ELSE IF z < SigLo THEN F32Zero
    ELSE SigTable[z - SigLo + 1]

(***************************************************************************)
(* The layers built by __init__, one value per parameter setting p.        *)
(* Setting 0 has all weights and biases zero; the others are fixed         *)
(* integer patterns.                                                       *)
(***************************************************************************)
Pat(n) == (n % 3) - 1

fc1 == [p \in Params |->
    [in_features |-> InDim, out_features |-> Hidden1,
     weight |-> [j \in 1 .. Hidden1 |-> [i \in 1 .. InDim |->
                   IF p = 0 \/ j > 4 THEN 0 ELSE Pat(p * j + i)]],
     bias |-> [j \in 1 .. Hidden1 |-> IF p = 0 \/ j > 4 THEN 0 ELSE j % 2]]]

fc2 == [p \in Params |->
    [in_features |-> Hidden1, out_features |-> Hidden2,
     weight |-> [k \in 1 .. Hidden2 |-> [j \in 1 .. Hidden1 |->
                   IF p = 0 \/ k > 3 \/ j > 4 THEN 0 ELSE Pat(p + k + j)]],
     bias |-> [k \in 1 .. Hidden2 |-> IF p = 0 \/ k > 3 THEN 0 ELSE 1]]]

latent_out == [p \in Params |->
    [in_features |-> Hidden2, out_features |-> LatentDim,
     weight |-> [m \in 1 .. LatentDim |-> [k \in 1 .. Hidden2 |->
                   IF p = 0 \/ k > 3 THEN 0 ELSE Pat(p * k + m)]],
     bias |-> [m \in 1 .. LatentDim |-> p]]]

reward_out == [p \in Params |->
    [in_features |-> Hidden2, out_features |-> 1,
     weight |-> [m \in 1 .. 1 |-> [k \in 1 .. Hidden2 |->
                   IF p = 0 \/ k > 3 THEN 0 ELSE Pat(k)]],
     bias |-> [m \in 1 .. 1 |-> 0 - p]]]

term_out == [p \in Params |->
    [in_features |-> Hidden2, out_features |-> 1,
     weight |-> [m \in 1 .. 1 |-> [k \in 1 .. Hidden2 |->
                   IF p = 0 \/ k > 3 THEN 0 ELSE 6 * p * p * p * Pat(k + p)]],
     bias |-> [m \in 1 .. 1 |-> IF p = 0 THEN 0 ELSE p - 1]]]

\* a triple that is no prediction: nothing was returned
NoTriple == [ns |-> <<>>, r |-> <<>>, t |-> <<>>]

\* lines 96-97: the 32-wide hidden representation of the raw input x
Hidden(p, x) ==
    LET a1 == Linear(fc1[p], x)
    IN  IF ~a1.ok THEN ShapeError
        ELSE Ok(Relu(Linear(fc2[p], Relu(a1.v)).v))

(***************************************************************************)
(* The inputs callers present: latent vectors and one-hot actions of the   *)
(* constructed widths, and one of each with a wrong width.                 *)
(***************************************************************************)
Vals == {0, 1}
Vec(w, v) == [i \in 1 .. w |-> IF i = 1 THEN v ELSE 0]
OneHot(w, k) == [i \in 1 .. w |-> IF i = k THEN 1 ELSE 0]

\* (latent_obs, action) pairs of the constructed widths
ValidInputs == {<<Vec(LatentDim, v), OneHot(ActionDim, k)>> :
                   v \in Vals, k \in 1 .. ActionDim}
\* a pair whose widths are both wrong but add up to the constructed total,
\* and a pair whose total width is wrong
WrongInputs == {<<Vec(LatentDim + 1, 1), OneHot(ActionDim - 1, 1)>>,
                <<Vec(LatentDim + 1, 1), OneHot(ActionDim, 1)>>}
Inputs == ValidInputs \cup WrongInputs
RawInputs == {Cat(i[1], i[2]) : i \in Inputs}

\* the triples a caller seeds the store with through set_memo
SeedVals == {8, 9}
SeedTriples == {[ns |-> Vec(LatentDim, n), r |-> <<n>>, t |-> <<Sigmoid(n - 8)>>] :
                   n \in SeedVals}

\* Network with delta_mode ignored: the state head output is returned as is
NetworkAbsolute(p, dm, s, x) ==
    LET h == Hidden(p, x)
    IN  IF ~h.ok THEN [ok |-> FALSE, triple |-> NoTriple]
        ELSE [ok |-> TRUE,
              triple |-> [ns |-> Linear(latent_out[p], h.v).v,
                          r |-> Linear(reward_out[p], h.v).v,
                          t |-> [j \in 1 .. 1 |->
                                    Sigmoid(Linear(term_out[p], h.v).v[j])]]]

\* Network run on the leading latent_state_dim + action_dim coordinates of x,
\* whatever its width
NetworkTruncating(p, dm, s, x) ==
    LET h == Hidden(p, [j \in 1 .. InDim |-> IF j <= Len(x) THEN x[j] ELSE 0])
        lo == Linear(latent_out[p], h.v).v
    IN  [ok |-> TRUE,
         triple |-> [ns |-> IF dm /\ Add(s, lo).ok THEN Add(s, lo).v ELSE lo,
                     r |-> Linear(reward_out[p], h.v).v,
                     t |-> [j \in 1 .. 1 |->
                               Sigmoid(Linear(term_out[p], h.v).v[j])]]]

\* lines 96-105: the network run on the raw input x of latent_obs s
Network(p, dm, s, x) ==
    LET h == Hidden(p, x)
    IN  IF ~h.ok THEN [ok |-> FALSE, triple |-> NoTriple]
        ELSE LET lo == Linear(latent_out[p], h.v).v
                 pred_latent_next_obs == IF dm THEN Add(s, lo) ELSE Ok(lo)
                 pred_reward == Linear(reward_out[p], h.v).v
                 logit == Linear(term_out[p], h.v).v
                 pred_terminate == [j \in 1 .. Len(logit) |-> Sigmoid(logit[j])]
             IN  IF ~pred_latent_next_obs.ok
                 THEN [ok |-> FALSE, triple |-> NoTriple]
                 ELSE [ok |-> TRUE,
                       triple |-> [ns |-> pred_latent_next_obs.v,
                                   r |-> pred_reward, t |-> pred_terminate]]

\* lines 101/103: self.latent_out(x), the raw output of the state head
StateHead(p, x) ==
    LET h == Hidden(p, x)
    IN  IF ~h.ok THEN ShapeError ELSE Linear(latent_out[p], h.v)

\* line 105: self.term_out(x), the termination logit before the sigmoid
TermLogit(p, x) ==
    LET h == Hidden(p, x)
    IN  IF ~h.ok THEN ShapeError ELSE Linear(term_out[p], h.v)

\* TermLogit evaluated once per (parameter setting, raw input)
LogitTable == [p \in Params |-> [x \in RawInputs |-> TermLogit(p, x)]]

\* StateHead evaluated once per (parameter setting, raw input)
HeadTable == [p \in Params |-> [x \in RawInputs |-> StateHead(p, x)]]

\* Network evaluated once per (parameter setting, mode, input pair)
NetTable == [p \in Params |-> [dm \in BOOLEAN |-> [i \in Inputs |->
                Network(p, dm, i[1], Cat(i[1], i[2]))]]]

(***************************************************************************)
(* The memo key (src.utils.HashedTensor) and the dict self.memos.          *)
(***************************************************************************)
\* value-based hash of a vector: derived from its exact contents
TensorHash(x) == DotRange(x, [i \in 1 .. Len(x) |-> i], 1, Len(x)) + 31 * Len(x)

\* equality of two wrapped vectors: same shape and element-wise identical
TensorEq(x, y) == Len(x) = Len(y) /\ \A i \in 1 .. Len(x) : x[i] = y[i]

HashedTensor(x) == [data |-> x, hash |-> TensorHash(x)]

\* Python dict lookup: a stored key with the same hash that compares equal
Slot(d, k) == {q \in DOMAIN d : q.hash = k.hash /\ TensorEq(q.data, k.data)}

\* memo_key in self.memos
Contains(d, k) == Slot(d, k) # {}

\* self.memos[memo_key]
Get(d, k) == d[CHOOSE q \in Slot(d, k) : TRUE]

\* self.memos[memo_key] = v: the value of an equal stored key is replaced,
\* otherwise the key is added
Put(d, k, v) ==
    IF Contains(d, k)
    THEN [d EXCEPT ![CHOOSE q \in Slot(d, k) : TRUE] = v]
    ELSE [q \in DOMAIN d \cup {k} |-> IF q = k THEN v ELSE d[q]]

\* {}: the empty dict
EmptyMemos == [q \in {} |-> 0]

(***************************************************************************)
(* forward: the outcome of a call and the store it leaves.  ran tells      *)
(* whether the layers were evaluated (lines 96-105 were reached).          *)
(***************************************************************************)
Returned(triple, hit, store) ==
    [status |-> "ok", triple |-> triple, hit |-> hit, ran |-> ~hit,
     memos |-> store]

Raised(store) ==
    [status |-> "shape_error", triple |-> NoTriple, hit |-> FALSE, ran |-> TRUE,
     memos |-> store]

\* Compute with line 108 dropped: the triple is stored whatever the flag is
ComputeAlwaysStore(on, store, dm, p, s, a) ==
    LET net == NetTable[p][dm][<<s, a>>]
    IN  IF ~net.ok THEN Raised(store)
        ELSE Returned(net.triple, FALSE,
                      Put(store, HashedTensor(Cat(s, a)), net.triple))

\* Compute without lines 108-109: the computed triple is never stored
ComputeNoStore(on, store, dm, p, s, a) ==
    LET net == NetTable[p][dm][<<s, a>>]
    IN  IF ~net.ok THEN Raised(store)
        ELSE Returned(net.triple, FALSE, store)

\* Compute that keeps only the newest entry: the store is rebuilt around it
ComputeReplacesStore(on, store, dm, p, s, a) ==
    LET net == NetTable[p][dm][<<s, a>>]
    IN  IF ~net.ok THEN Raised(store)
        ELSE Returned(net.triple, FALSE,
                      IF on THEN Put(EmptyMemos, HashedTensor(Cat(s, a)), net.triple)
                      ELSE store)

\* Compute that reserves the key before the layers run: a failing call
\* leaves an entry without a prediction behind
ComputeStoresFirst(on, store, dm, p, s, a) ==
    LET net == NetTable[p][dm][<<s, a>>]
        memo_key == HashedTensor(Cat(s, a))
    IN  IF ~net.ok THEN Raised(IF on THEN Put(store, memo_key, NoTriple) ELSE store)
        ELSE Returned(net.triple, FALSE,
                      IF on THEN Put(store, memo_key, net.triple) ELSE store)

\* lines 95-111: the network is evaluated, the triple stored and returned
Compute(on, store, dm, p, s, a) ==
    LET net == NetTable[p][dm][<<s, a>>]
    IN  IF ~net.ok THEN Raised(store)
        ELSE Returned(net.triple, FALSE,
                      IF on THEN Put(store, HashedTensor(Cat(s, a)), net.triple)
                      ELSE store)

\* Forward with the store consulted and filled whatever the flag is
ForwardIgnoreFlag(on, store, dm, p, s, a) ==
    IF Contains(store, HashedTensor(Cat(s, a)))
    THEN Returned(Get(store, HashedTensor(Cat(s, a))), TRUE, store)
    ELSE Compute(TRUE, store, dm, p, s, a)

\* Forward with a hit returned under the flag of a computed result
ForwardHitUnflagged(on, store, dm, p, s, a) ==
    IF on /\ Contains(store, HashedTensor(Cat(s, a)))
    THEN [Returned(Get(store, HashedTensor(Cat(s, a))), TRUE, store)
             EXCEPT !.hit = FALSE]
    ELSE Compute(on, store, dm, p, s, a)

\* Forward with a lookup that accepts a stored key within distance 1 of the
\* input in every coordinate
ForwardNearKey(on, store, dm, p, s, a) ==
    LET x == Cat(s, a)
        near == {q \in DOMAIN store :
                    /\ Len(q.data) = Len(x)
                    /\ \A j \in 1 .. Len(x) :
                           q.data[j] - x[j] \in {0 - 1, 0, 1}}
    IN  IF on /\ near # {}
        THEN Returned(store[CHOOSE q \in near : TRUE], TRUE, store)
        ELSE Compute(on, store, dm, p, s, a)

\* Forward that answers a hit with what the layers compute now instead of
\* the stored triple
ForwardRefreshing(on, store, dm, p, s, a) ==
    IF on /\ Contains(store, HashedTensor(Cat(s, a)))
          /\ NetTable[p][dm][<<s, a>>].ok
    THEN Returned(NetTable[p][dm][<<s, a>>].triple, TRUE, store)
    ELSE IF on /\ Contains(store, HashedTensor(Cat(s, a)))
    THEN Returned(Get(store, HashedTensor(Cat(s, a))), TRUE, store)
    ELSE Compute(on, store, dm, p, s, a)

\* lines 86-111
Forward(on, store, dm, p, s, a) ==
    LET x == Cat(s, a)
        memo_key == HashedTensor(x)
    IN  IF on /\ Contains(store, memo_key)
        THEN Returned(Get(store, memo_key), TRUE, store)
        ELSE Compute(on, store, dm, p, s, a)

\* a start_memoize that flips the flag instead of setting it
ToggleFlag(on) == ~on

\* lines 41-42: the flag start_memoize leaves
StartMemoizeFlag(on) == TRUE

\* lines 44-45: the flag stop_memoize leaves
StopMemoizeFlag(on) == FALSE

\* set_memo with reward and term stored in each other's place
SetMemoStoreSwapped(store, s, a, triple) ==
    Put(store, HashedTensor(Cat(s, a)),
        [ns |-> triple.ns, r |-> triple.t, t |-> triple.r])

\* set_memo that keeps the entry a key already has (dict.setdefault)
SetMemoStoreKeepsFirst(store, s, a, triple) ==
    IF Contains(store, HashedTensor(Cat(s, a)))
    THEN store
    ELSE Put(store, HashedTensor(Cat(s, a)), triple)

\* set_memo on a store that makes room for a new key by dropping the others
SetMemoStoreEvicting(store, s, a, triple) ==
    IF Contains(store, HashedTensor(Cat(s, a)))
    THEN Put(store, HashedTensor(Cat(s, a)), triple)
    ELSE Put(EmptyMemos, HashedTensor(Cat(s, a)), triple)

\* lines 64-65
SetMemoStore(store, s, a, triple) == Put(store, HashedTensor(Cat(s, a)), triple)

\* clear_memos that leaves the entries in place
ClearKeepsStore(store) == store

\* lines 67-68
ClearMemosStore(store) == EmptyMemos

(***************************************************************************)
(* Observation of a run.  last is the latest operation: its arguments, its *)
(* outcome, the flag it ran under, and for a forward call what it came     *)
(* right after: a set_memo or a forward call on its key, or a clear_memos. *)
(* watch is one earlier successful forward call kept for comparison with   *)
(* later ones, with what happened to its key since.  A run is observed     *)
(* either step by step (w = FALSE: last in full, no watch) or call against *)
(* call (w = TRUE: watch, and last only for later forward calls on the     *)
(* watched key).  fresh tells that neither start_memoize nor set_memo has   *)
(* been called since construction.                                         *)
(***************************************************************************)
NoVec == <<>>

KeyOf(s, a) == HashedTensor(Cat(s, a))

Rec(op, s, a, triple, hit, status, on, ran, after) ==
    [op |-> op, s |-> s, a |-> a, triple |-> triple, hit |-> hit,
     status |-> status, on |-> on, ran |-> ran, after |-> after]

Control(op, on) == Rec(op, NoVec, NoVec, NoTriple, FALSE, "ok", on, FALSE, "")

Unobserved == Control("other", FALSE)

\* what a forward call on key k comes right after, l being the operation
\* before it
After(l, k) ==
    IF l.op \in {"forward", "set_memo"} /\ KeyOf(l.s, l.a) = k THEN l.op
    ELSE IF l.op = "clear_memos" THEN l.op
    ELSE ""

\* the cap on the entries of the store, by the way the run is observed
Cap(w) == IF w THEN MaxWatchMemos ELSE MaxMemos

\* what happened to the key of the watched call since that call
Untouched == "untouched"    \* no clear_memos, no set_memo on the key
Cleared == "cleared"        \* clear_memos, and no insertion of the key since
Refilled == "refilled"      \* clear_memos, then a forward miss stored the key
Seeded == "seeded"          \* a set_memo on the key

NoWatch == [armed |-> FALSE, op |-> "", s |-> NoVec, a |-> NoVec,
            triple |-> NoTriple, hit |-> FALSE, on |-> FALSE,
            touched |-> Untouched, toggled |-> 0]

\* the watched call after a clear_memos
WatchCleared(wt) == IF wt.armed THEN [wt EXCEPT !.touched = Cleared] ELSE wt

\* the watched call after a set_memo on key k
WatchSeeded(wt, k) ==
    IF wt.armed /\ KeyOf(wt.s, wt.a) = k
    THEN [wt EXCEPT !.touched = Seeded]
    ELSE wt

\* the watched call after a forward call on key k that stored its triple
WatchStored(wt, k, stored) ==
    IF wt.armed /\ KeyOf(wt.s, wt.a) = k /\ stored /\ wt.touched = Cleared
    THEN [wt EXCEPT !.touched = Refilled]
    ELSE wt

\* the watched call after a stop_memoize (1) and a later start_memoize (2)
Toggle(wt, start) ==
    IF ~wt.armed THEN wt
    ELSE IF start THEN [wt EXCEPT !.toggled = IF @ = 1 THEN 2 ELSE @]
    ELSE [wt EXCEPT !.toggled = 1]

\* a predictor that memoizes from construction on
MemoizeFromStart == TRUE

\* line 38: the flag a new predictor starts with
InitialFlag == FALSE

Init ==
    /\ memoize_on = InitialFlag
    /\ memos = EmptyMemos
    /\ delta_mode \in BOOLEAN
    /\ params \in Params
    /\ last = Unobserved
    /\ watch = NoWatch
    /\ fresh = TRUE

StartMemoize(w) ==
    /\ memoize_on' = StartMemoizeFlag(memoize_on)
    /\ last' = IF w THEN Unobserved
               ELSE Control("start_memoize", StartMemoizeFlag(memoize_on))
    /\ watch' = Toggle(watch, TRUE)
    /\ fresh' = FALSE
    /\ UNCHANGED <<memos, delta_mode, params>>

StopMemoize(w) ==
    /\ memoize_on' = StopMemoizeFlag(memoize_on)
    /\ last' = IF w THEN Unobserved
               ELSE Control("stop_memoize", StopMemoizeFlag(memoize_on))
    /\ watch' = Toggle(watch, FALSE)
    /\ UNCHANGED <<memos, delta_mode, params, fresh>>

\* a call of set_memo on the pair i with the triple tr; arm: the call becomes
\* the watched one
Seed(i, tr, w, arm) ==
    LET s == i[1]
        a == i[2]
    IN  /\ Cardinality(DOMAIN SetMemoStore(memos, s, a, tr)) <= Cap(w)
        /\ memos' = SetMemoStore(memos, s, a, tr)
        /\ last' = IF w THEN Unobserved
                   ELSE Rec("set_memo", s, a, tr, FALSE, "ok", memoize_on,
                            FALSE, "")
        /\ watch' = IF arm
                    THEN [armed |-> TRUE, op |-> "set_memo", s |-> s, a |-> a,
                          triple |-> tr, hit |-> FALSE, on |-> memoize_on,
                          touched |-> Untouched, toggled |-> 0]
                    ELSE WatchSeeded(watch, KeyOf(s, a))
        /\ fresh' = FALSE
        /\ UNCHANGED <<memoize_on, delta_mode, params>>

SetMemo(w) == \E i \in Inputs, tr \in SeedTriples : Seed(i, tr, w, FALSE)

SetMemoWatched == \E i \in Inputs, tr \in SeedTriples : Seed(i, tr, TRUE, TRUE)

ClearMemos(w) ==
    /\ memos' = ClearMemosStore(memos)
    /\ last' = IF w THEN Unobserved
               ELSE Control("clear_memos", memoize_on)
    /\ watch' = WatchCleared(watch)
    /\ UNCHANGED <<memoize_on, delta_mode, params, fresh>>

\* a call of forward (or run) on the pair i; arm: the call becomes the watched one
Call(i, w, arm) ==
    LET s == i[1]
        a == i[2]
        out == Forward(memoize_on, memos, delta_mode, params, s, a)
    IN  /\ Cardinality(DOMAIN out.memos) <= Cap(w)
        /\ memos' = out.memos
        /\ last' = IF w
                   THEN IF ~arm /\ watch.armed
                           /\ KeyOf(watch.s, watch.a) = KeyOf(s, a)
                        THEN Rec("forward", s, a, out.triple, out.hit,
                                 out.status, memoize_on, out.ran, "")
                        ELSE Unobserved
                   ELSE Rec("forward", s, a, out.triple, out.hit, out.status,
                            memoize_on, out.ran, After(last, KeyOf(s, a)))
        /\ IF arm
           THEN /\ out.status = "ok"
                /\ watch' = [armed |-> TRUE, op |-> "forward", s |-> s, a |-> a,
                             triple |-> out.triple, hit |-> out.hit,
                             on |-> memoize_on, touched |-> Untouched,
                             toggled |-> 0]
           ELSE watch' = WatchStored(watch, KeyOf(s, a),
                                     memoize_on /\ out.status = "ok" /\ ~out.hit)
        /\ UNCHANGED <<memoize_on, delta_mode, params, fresh>>

Predict(w) == \E i \in Inputs : Call(i, w, FALSE)

PredictWatched == \E i \in Inputs : Call(i, TRUE, TRUE)

\* a forward call that misses with memoization on and becomes the watched one
PredictInserting ==
    \E i \in Inputs :
        /\ memoize_on /\ ~Contains(memos, KeyOf(i[1], i[2]))
        /\ Call(i, TRUE, TRUE)

\* an optimizer step or a load of weights: the parameters of the layers change
UpdateParams(w) ==
    \E p \in Params \ {params} :
        /\ params' = p
        /\ last' = IF w THEN Unobserved ELSE Control("update_params", memoize_on)
        /\ watch' = NoWatch
        /\ UNCHANGED <<memoize_on, memos, delta_mode, fresh>>

\* a parameter update after which the watched call stays watched
UpdateParamsKept ==
    \E p \in Params \ {params} :
        /\ params' = p
        /\ last' = Unobserved
        /\ UNCHANGED <<memoize_on, memos, delta_mode, watch, fresh>>

Next ==
    \/ StartMemoize(FALSE)
    \/ StopMemoize(FALSE)
    \/ SetMemo(FALSE)
    \/ ClearMemos(FALSE)
    \/ Predict(FALSE)
    \/ UpdateParams(FALSE)

Spec == Init /\ [][Next]_vars

NextWatch ==
    \/ StartMemoize(TRUE)
    \/ StopMemoize(TRUE)
    \/ SetMemo(TRUE)
    \/ ClearMemos(TRUE)
    \/ Predict(TRUE)
    \/ PredictWatched
    \/ UpdateParams(TRUE)

SpecWatch == Init /\ [][NextWatch]_vars

\* runs observed write against later calls: the watched call is a set_memo
\* or a forward miss that stored its triple
NextWrite ==
    \/ StartMemoize(TRUE)
    \/ StopMemoize(TRUE)
    \/ SetMemo(TRUE)
    \/ SetMemoWatched
    \/ ClearMemos(TRUE)
    \/ Predict(TRUE)
    \/ PredictInserting
    \/ UpdateParamsKept

SpecWrite == Init /\ [][NextWrite]_vars

(***************************************************************************)
(* Properties.                                                             *)
(***************************************************************************)
\* the step is a forward call (its record is the new last)
CallStep == last'.op = "forward"

\* the forward call recorded in r was made on the pair of the record q
SamePair(r, q) == r.s = q.s /\ r.a = q.a

\* the records r and q are about the same memo key
SameKey(r, q) == KeyOf(r.s, r.a) = KeyOf(q.s, q.a)

\* x and y have the same shape and are identical coordinate by coordinate
Identical(x, y) == Len(x) = Len(y) /\ \A j \in 1 .. Len(x) : x[j] = y[j]

\* C1: with memoization on, a forward call made right after clear_memos
\* returns hit false, and a forward call that repeats the pair of the forward
\* call right before it (made with memoization on) returns hit true and the
\* triple that call returned.
C1_HitMissFlag ==
    [][CallStep /\ memoize_on /\ last'.status = "ok" =>
          /\ last.op = "clear_memos" => ~last'.hit
          /\ last.op = "forward" /\ last.status = "ok" /\ last.on
                /\ SamePair(last', last)
                => last'.hit /\ last'.triple = last.triple]_vars

\* a repeated call hit, its key computed and stored by the call before it
C1_Witness ==
    /\ last.op = "forward" /\ last.after = "forward"
    /\ last.on /\ last.hit /\ last.status = "ok"
    /\ last.triple \notin SeedTriples

\* C2 as stated: two forward calls on one pair, both with memoization on and
\* with no parameter update between them; the second returns hit true and the
\* triple of the first, whatever else ran between them.
C2_Original ==
    last.op = "forward" /\ last.on /\ watch.armed /\ watch.on
        /\ SamePair(last, watch)
        => last.status = "ok" /\ last.hit /\ last.triple = watch.triple

\* C2 amended: two forward calls on one pair, both with memoization on and
\* with no parameter update, no clear_memos and no set_memo on the key of the
\* pair between them; the second returns hit true and the triple of the first.
C2_RepeatHit ==
    last.op = "forward" /\ last.on /\ watch.armed /\ watch.on
        /\ SamePair(last, watch) /\ watch.touched = Untouched
        => last.status = "ok" /\ last.hit /\ last.triple = watch.triple

\* the second call hit on what the first one, a miss, computed and stored
C2_Witness ==
    /\ last.op = "forward" /\ last.on /\ last.hit
    /\ watch.armed /\ watch.on /\ ~watch.hit /\ SamePair(last, watch)
    /\ watch.touched = Untouched /\ watch.toggled = 0

\* C3: set_memo puts its triple under the key of (s, a) whatever the flag is,
\* and a forward call on (s, a) right after it, made with memoization on,
\* returns that triple with hit true and without running the layers.
C3_ManualSeeding ==
    [][/\ last'.op = "set_memo" =>
             /\ Contains(memos', KeyOf(last'.s, last'.a))
             /\ Get(memos', KeyOf(last'.s, last'.a)) = last'.triple
       /\ CallStep /\ memoize_on /\ last.op = "set_memo" /\ SamePair(last', last)
             => /\ last'.status = "ok" /\ last'.hit /\ ~last'.ran
                /\ last'.triple = last.triple]_vars

\* a call right after a set_memo on its key returned the seeded triple
C3_Witness ==
    /\ last.op = "forward" /\ last.after = "set_memo"
    /\ last.hit /\ ~last.ran /\ last.triple \in SeedTriples

\* C4: a forward call made with memoization off returns hit false, also on a
\* key that is in the store; and once start_memoize has followed the
\* stop_memoize, a forward call on a key a call stored or hit before the stop
\* returns hit true and the triple of that call, when nothing cleared or
\* reseeded the key in between.
C4_MemoIsolation ==
    /\ last.op = "forward" /\ ~last.on => ~last.hit
    /\ last.op = "forward" /\ last.on /\ watch.armed /\ watch.on
          /\ SameKey(last, watch)
          /\ watch.toggled = 2 /\ watch.touched = Untouched
          => last.status = "ok" /\ last.hit /\ last.triple = watch.triple

\* after a stop_memoize and a start_memoize, a call hit on the entry a call
\* before the stop had stored
C4_Witness ==
    /\ last.op = "forward" /\ last.on /\ last.hit
    /\ watch.armed /\ watch.on /\ ~watch.hit /\ SameKey(last, watch)
    /\ watch.toggled = 2 /\ watch.touched = Untouched
    /\ last.triple = watch.triple

\* C5: once clear_memos has run, under either value of the flag, a key that a
\* forward call had stored or hit before it is out of the store until it is
\* inserted again, and the first forward call on it with memoization on
\* returns hit false.
C5_ClearSemantics ==
    [][watch.armed /\ watch.on /\ watch.touched = Cleared
          => /\ ~Contains(memos, KeyOf(watch.s, watch.a))
             /\ CallStep /\ memoize_on /\ SameKey(last', watch)
                   => ~last'.hit]_vars

\* the call after the clear missed and stored the key again
C5_Witness ==
    /\ last.op = "forward" /\ last.on /\ ~last.hit
    /\ watch.armed /\ watch.on /\ watch.touched = Refilled

\* C6: with memoization on, a forward call returns hit true exactly when the
\* store holds a key identical, coordinate by coordinate, to the concatenation
\* of (s, a); an input off every stored key in some coordinate misses.
C6_ExactKey ==
    [][CallStep /\ memoize_on =>
          (last'.hit <=> \E q \in DOMAIN memos :
                             Identical(q.data, Cat(last'.s, last'.a)))]_vars

\* a miss, with memoization on, on an input one unit off a stored key in one
\* coordinate and equal to it in the others
C6_Witness ==
    /\ last.op = "forward" /\ last.on /\ ~last.hit /\ last.status = "ok"
    /\ \E q \in DOMAIN memos :
           /\ Len(q.data) = Len(Cat(last.s, last.a))
           /\ Cardinality({j \in 1 .. Len(q.data) :
                              q.data[j] # Cat(last.s, last.a)[j]}) = 1

\* C7: a forward call made with memoization off leaves the store as it was,
\* runs the layers and returns what they compute under the current
\* parameters, with hit false.
C7_OffNoStoreAccess ==
    [][CallStep /\ ~memoize_on =>
          /\ memos' = memos
          /\ ~last'.hit /\ last'.ran
          /\ last'.status = "ok" =>
                last'.triple =
                    NetTable[params][delta_mode][<<last'.s, last'.a>>].triple]_vars

\* a call with memoization off returned something else than the entry the
\* store holds under its key
C7_Witness ==
    /\ last.op = "forward" /\ ~last.on /\ last.status = "ok"
    /\ Contains(memos, KeyOf(last.s, last.a))
    /\ Get(memos, KeyOf(last.s, last.a)) # last.triple

\* the next latent state the claim C8 expects of a call on (s, a)
DeltaRule(s, a) ==
    LET head == HeadTable[params][Cat(s, a)]
    IN  IF delta_mode THEN Add(s, head.v).v ELSE head.v

\* C8 as stated: every forward call that returns, returns as next latent state
\* the state head output, plus s under delta_mode.
C8_Original ==
    last.op = "forward" /\ last.status = "ok"
        => last.triple.ns = DeltaRule(last.s, last.a)

\* C8 amended: every forward call that returns with hit false, returns as next
\* latent state the state head output, plus s under delta_mode.
C8_DeltaOnCompute ==
    last.op = "forward" /\ last.status = "ok" /\ ~last.hit
        => last.triple.ns = DeltaRule(last.s, last.a)

\* a computed call under delta_mode whose result is not the state head output
\* alone
C8_Witness ==
    /\ last.op = "forward" /\ last.status = "ok" /\ ~last.hit /\ delta_mode
    /\ last.triple.ns # HeadTable[params][Cat(last.s, last.a)].v

\* C9 as stated: with no parameter update between them, two forward calls on
\* one pair return the same triple.
C9_Original ==
    last.op = "forward" /\ last.status = "ok" /\ watch.armed
        /\ SamePair(last, watch)
        => last.triple = watch.triple

\* C9 amended: with no parameter update between them, two forward calls on one
\* pair that both return with hit false return the same triple; and a forward
\* call changes nothing but the store, to which it adds at most its own key
\* with the triple it computed.
C9_PureOnMiss ==
    [][CallStep =>
          /\ params' = params /\ memoize_on' = memoize_on
          /\ delta_mode' = delta_mode
          /\ \/ memos' = memos
             \/ /\ memoize_on /\ ~last'.hit /\ last'.status = "ok"
                /\ DOMAIN memos' = DOMAIN memos \cup {KeyOf(last'.s, last'.a)}
                /\ memos'[KeyOf(last'.s, last'.a)] = last'.triple
                /\ \A q \in DOMAIN memos \ {KeyOf(last'.s, last'.a)} :
                       memos'[q] = memos[q]
          /\ last'.status = "ok" /\ ~last'.hit /\ watch.armed /\ ~watch.hit
                /\ SamePair(last', watch)
                => last'.triple = watch.triple]_vars

\* two computed calls on one pair, the first with memoization off, the second
\* with memoization on after the key was cleared or never stored
C9_Witness ==
    /\ last.op = "forward" /\ last.status = "ok" /\ ~last.hit /\ last.on
    /\ watch.armed /\ ~watch.hit /\ ~watch.on /\ SamePair(last, watch)
    /\ last.triple = watch.triple

\* C10: with no parameter update between them, two forward calls on one pair
\* that are both made with memoization off return the same triple, both with
\* hit false, whatever the store holds.
C10_Determinism ==
    last.op = "forward" /\ ~last.on /\ watch.armed /\ ~watch.on
        /\ SamePair(last, watch)
        => /\ last.status = "ok" /\ ~last.hit /\ ~watch.hit
           /\ last.triple = watch.triple

\* the second of two such calls, made while the store holds another triple
\* under the key
C10_Witness ==
    /\ last.op = "forward" /\ ~last.on /\ watch.armed /\ ~watch.on
    /\ SamePair(last, watch) /\ last.triple = watch.triple
    /\ Contains(memos, KeyOf(last.s, last.a))
    /\ Get(memos, KeyOf(last.s, last.a)) # last.triple

Computed == last.op = "forward" /\ last.status = "ok" /\ ~last.hit

\* the termination logit of the forward call recorded in last
LastLogit == LogitTable[params][Cat(last.s, last.a)].v

\* C12 as stated: the termination value of a computed forward call is
\* strictly above 0.0 and strictly below 1.0.
C12_Original ==
    Computed => \A j \in 1 .. Len(last.triple.t) :
                    F32Zero < last.triple.t[j] /\ last.triple.t[j] < F32One

\* C12 amended: the termination value of a computed forward call is at least
\* 0.0 and at most 1.0; it is exactly 1.0 when the logit is above SigHi, and
\* strictly between 0.0 and 1.0 when the logit is in SigLo .. SigHi.
C12_TermBound ==
    Computed =>
        /\ Len(last.triple.t) = 1
        /\ \A j \in 1 .. Len(last.triple.t) :
               /\ F32Zero <= last.triple.t[j] /\ last.triple.t[j] <= F32One
               /\ LastLogit[j] > SigHi => last.triple.t[j] = F32One
               /\ LastLogit[j] \in SigLo .. SigHi =>
                       F32Zero < last.triple.t[j] /\ last.triple.t[j] < F32One

\* a computed call on a nonzero logit returned a termination value strictly
\* inside the interval
C12_Witness ==
    /\ Computed /\ LastLogit[1] \in (SigLo .. SigHi) \ {0}
    /\ F32Zero < last.triple.t[1] /\ last.triple.t[1] < F32One
    /\ last.triple.t[1] # Sigmoid(0)

\* C13: with memoization on, a forward call that misses and returns leaves
\* the store it found plus one entry, under a key that was not in it, that
\* maps the key of its input to the triple it returns; one that hits leaves
\* the store as it found it.
C13_StoreFrame ==
    [][CallStep /\ memoize_on /\ last'.status = "ok" =>
          LET k == KeyOf(last'.s, last'.a)
          IN  IF last'.hit
              THEN memos' = memos
              ELSE /\ k \notin DOMAIN memos
                   /\ DOMAIN memos' = DOMAIN memos \cup {k}
                   /\ Cardinality(DOMAIN memos') = Cardinality(DOMAIN memos) + 1
                   /\ memos'[k] = last'.triple
                   /\ \A q \in DOMAIN memos : memos'[q] = memos[q]]_vars

\* a miss added its entry to a store that held another key
C13_Witness ==
    /\ last.op = "forward" /\ last.on /\ ~last.hit /\ last.status = "ok"
    /\ Cardinality(DOMAIN memos) >= 2
    /\ memos[KeyOf(last.s, last.a)] = last.triple

\* C14: a forward call, a set_memo, a start_memoize, a stop_memoize and a
\* parameter update keep every key of the store in the store; clear_memos
\* leaves no key in it.
C14_NoEviction ==
    [][IF last'.op = "clear_memos"
       THEN DOMAIN memos' = {}
       ELSE DOMAIN memos \subseteq DOMAIN memos']_vars

\* a set_memo on a new key, or a miss, grew a store whose older key stayed
C14_Witness ==
    /\ last.op \in {"set_memo", "forward"} /\ ~last.hit
    /\ Cardinality(DOMAIN memos) >= 2
    /\ \E q \in DOMAIN memos : q # KeyOf(last.s, last.a)

\* C15: from construction until the first start_memoize or set_memo, the flag
\* is off, the store is empty and every forward call returns hit false.
C15_FreshDefaults ==
    fresh => /\ ~memoize_on
             /\ memos = EmptyMemos
             /\ last.op = "forward" => ~last.hit /\ last.ran

\* a forward call returned what the layers compute under a parameter setting
\* with nonzero weights, before any start_memoize or set_memo
C15_Witness ==
    /\ fresh /\ last.op = "forward" /\ last.status = "ok" /\ ~last.hit
    /\ last.triple = NetTable[1][delta_mode][<<last.s, last.a>>].triple
    /\ last.triple # NetTable[0][delta_mode][<<last.s, last.a>>].triple

\* the state of the predictor: the flag, the store, the mode, the parameters
Predictor == <<memoize_on, memos, delta_mode, params>>

\* C16: start_memoize leaves the flag on and stop_memoize leaves it off,
\* neither changes the store, and neither changes anything when the flag is
\* already what it sets; set_memo writes its entry and clear_memos empties the
\* store, neither changes the flag; none of the four changes the mode or the
\* parameters.
C16_ControlFrame ==
    [][/\ last'.op = "start_memoize" =>
             /\ memoize_on' /\ memos' = memos
             /\ memoize_on => Predictor' = Predictor
       /\ last'.op = "stop_memoize" =>
             /\ ~memoize_on' /\ memos' = memos
             /\ ~memoize_on => Predictor' = Predictor
       /\ last'.op = "set_memo" =>
             /\ memoize_on' = memoize_on
             /\ Get(memos', KeyOf(last'.s, last'.a)) = last'.triple
       /\ last'.op = "clear_memos" =>
             memoize_on' = memoize_on /\ memos' = EmptyMemos
       /\ last'.op \in {"start_memoize", "stop_memoize", "set_memo",
                         "clear_memos"}
             => delta_mode' = delta_mode /\ params' = params]_vars

\* a start_memoize or a stop_memoize ran on a store that holds entries
C16_Witness ==
    /\ \/ last.op = "start_memoize" /\ memoize_on
       \/ last.op = "stop_memoize" /\ ~memoize_on
    /\ Cardinality(DOMAIN memos) >= 2

\* the watched call wrote the entry of its key, and no set_memo on the key
\* and no clear_memos came after it
LatestWrite ==
    /\ watch.armed /\ watch.touched = Untouched
    /\ watch.op = "set_memo" \/ (watch.op = "forward" /\ watch.on /\ ~watch.hit)

\* C17: after a set_memo on a key, or a forward miss that inserted it, and
\* until the next set_memo on the key or clear_memos, the store holds under
\* the key the triple of that write, whatever forward calls, flag changes and
\* parameter updates come in between, and a forward call that hits on the key
\* returns that triple; the store never holds two entries for one input.
C17_LastWriteWins ==
    /\ \A q1, q2 \in DOMAIN memos : TensorEq(q1.data, q2.data) => q1 = q2
    /\ LatestWrite =>
          /\ Contains(memos, KeyOf(watch.s, watch.a))
          /\ Get(memos, KeyOf(watch.s, watch.a)) = watch.triple
          /\ last.op = "forward" /\ last.hit /\ SameKey(last, watch)
                => last.triple = watch.triple

\* a hit returned the triple of the latest set_memo on its key
C17_Witness ==
    /\ LatestWrite /\ watch.op = "set_memo"
    /\ last.op = "forward" /\ last.hit /\ SameKey(last, watch)
    /\ last.triple = watch.triple

\* C18: a forward call that raises a shape error leaves the store and the
\* flag (and the mode and the parameters) as they were, under either value of
\* the flag: the store gets no entry for the failing input.
C18_ErrorFrame ==
    [][CallStep /\ last'.status = "shape_error" =>
          /\ memos' = memos /\ memoize_on' = memoize_on
          /\ Predictor' = Predictor
          /\ Contains(memos', KeyOf(last'.s, last'.a)) => ~memoize_on]_vars

\* a call raised with memoization on and an entry in the store
C18_Witness ==
    /\ last.op = "forward" /\ last.status = "shape_error" /\ last.on
    /\ memoize_on /\ Cardinality(DOMAIN memos) >= 1
    /\ ~Contains(memos, KeyOf(last.s, last.a))

\* C19: a parameter update leaves the store and the flag as they were; with
\* memoization on, a forward call that hits returns the triple the store
\* holds under its key, and one that misses returns what the layers compute
\* under the current parameters.
C19_StaleStore ==
    [][/\ last'.op = "update_params" =>
             memos' = memos /\ memoize_on' = memoize_on /\ params' # params
       /\ CallStep /\ memoize_on /\ last'.status = "ok" =>
             last'.triple =
                 IF last'.hit
                 THEN Get(memos, KeyOf(last'.s, last'.a))
                 ELSE NetTable[params][delta_mode][<<last'.s, last'.a>>].triple]_vars

\* a hit returned a triple the layers computed under earlier parameters,
\* which is not what they compute for the key now
C19_Witness ==
    /\ last.op = "forward" /\ last.on /\ last.hit
    /\ last.triple \notin SeedTriples
    /\ NetTable[params][delta_mode][<<last.s, last.a>>].ok
    /\ last.triple # NetTable[params][delta_mode][<<last.s, last.a>>].triple
    /\ \E p \in Params \ {params} :
           last.triple = NetTable[p][delta_mode][<<last.s, last.a>>].triple

====
